---- MODULE Spec2Model ----
(***************************************************************************)
(* State machine of chaosPrimer's Grid (grid.py): a 1-D list of boxes that *)
(* are toggled by index or by mouse click, read and replaced in bulk, and  *)
(* saved to / loaded from a JSON file.                                     *)
(*                                                                         *)
(* Python values are tagged records [t |-> tag, v |-> payload]; a JSON     *)
(* text is the sequence of its tokens (whitespace is not a token).         *)
(***************************************************************************)
EXTENDS Integers, Sequences, FiniteSets, TLC

(* ------------------------------ bounds --------------------------------- *)
\* largest height a Grid is constructed with
MaxHeight == 2
\* most click callbacks connected to one figure's canvas
MaxHandlers == 4

(* ------------------------- program constants --------------------------- *)
\* BoxState.ON / BoxState.OFF
ON == 1
OFF == 0
\* width of one box in data coordinates (index = x // 20)
BoxWidth == 20
\* the height of Grid() with no argument
DefaultHeight == 14
\* an integer that is neither ON nor OFF (the tests use 2)
Other == 2

(* --------------------------- Python values ----------------------------- *)
PyInt(n) == [t |-> "int", v |-> n]
PyNone == [t |-> "none", v |-> 0]
PyStr(s) == [t |-> "str", v |-> s]
PyList(q) == [t |-> "list", v |-> q]
PyTuple(q) == [t |-> "tuple", v |-> q]
\* a dict is the sequence of its <<key, value>> items, in insertion order
PyDict(q) == [t |-> "dict", v |-> q]

\* x == y for the values the model holds
PyEq(x, y) == x.t = y.t /\ x.v = y.v

\* does len(x) succeed
HasLen(x) == x.t \in {"list", "tuple", "str", "dict"}

\* len(x), for a value that has one
PyLen(x) == Len(x.v)

\* key in d / d[key] for a dict d
DictHas(d, key) == \E k \in 1..Len(d.v) : d.v[k][1] = key
DictGet(d, key) == d.v[CHOOSE k \in 1..Len(d.v) : d.v[k][1] = key][2]
\* d[key] = val: an existing key keeps its position
DictPut(q, key, val) ==
    IF \E k \in 1..Len(q) : q[k][1] = key
    THEN [k \in 1..Len(q) |-> IF q[k][1] = key THEN <<key, val>> ELSE q[k]]
    ELSE Append(q, <<key, val>>)

(* ------------------------------- JSON ---------------------------------- *)
\* the strings that occur in the texts of the model
Strings == {"height", "grid", "height grid"}
Quote(s) == "\"" \o s \o "\""
\* the integers a text of the model can spell
Numbers == 0..(MaxHeight + 2)

IsStrTok(tok) == \E s \in Strings : Quote(s) = tok
IsNumTok(tok) == \E n \in Numbers : ToString(n) = tok

RECURSIVE DumpItems(_), DumpMembers(_), json_dump(_)
\* json.dump(obj, f, indent=2): the tokens written to the file
json_dump(x) ==
    CASE x.t = "int" -> <<ToString(x.v)>>
      [] x.t = "none" -> <<"null">>
      [] x.t = "str" -> <<Quote(x.v)>>
      [] x.t \in {"list", "tuple"} -> <<"[">> \o DumpItems(x.v) \o <<"]">>
      [] x.t = "dict" -> <<"{">> \o DumpMembers(x.v) \o <<"}">>

DumpItems(q) ==
    IF q = <<>> THEN <<>>
    ELSE IF Len(q) = 1 THEN json_dump(q[1])
    ELSE json_dump(q[1]) \o <<",">> \o DumpItems(Tail(q))

DumpMembers(q) ==
    IF q = <<>> THEN <<>>
    ELSE IF Len(q) = 1 THEN <<Quote(q[1][1]), ":">> \o json_dump(q[1][2])
    ELSE <<Quote(q[1][1]), ":">> \o json_dump(q[1][2]) \o <<",">> \o DumpMembers(Tail(q))

\* result of a parse step: the value and the position after it
ParseFail == [ok |-> FALSE, val |-> PyNone, next |-> 0]
ParseOk(x, i) == [ok |-> TRUE, val |-> x, next |-> i]

RECURSIVE ParseValue(_, _), ParseItems(_, _, _), ParseMembers(_, _, _)
\* the JSON value that starts at token i
ParseValue(toks, i) ==
    IF i > Len(toks) THEN ParseFail
    ELSE IF toks[i] = "null" THEN ParseOk(PyNone, i + 1)
    ELSE IF IsNumTok(toks[i])
         THEN ParseOk(PyInt(CHOOSE n \in Numbers : ToString(n) = toks[i]), i + 1)
    ELSE IF IsStrTok(toks[i])
         THEN ParseOk(PyStr(CHOOSE s \in Strings : Quote(s) = toks[i]), i + 1)
    ELSE IF toks[i] = "["
         THEN IF i + 1 <= Len(toks) /\ toks[i + 1] = "]"
              THEN ParseOk(PyList(<<>>), i + 2)
              ELSE ParseItems(toks, i + 1, <<>>)
    ELSE IF toks[i] = "{"
         THEN IF i + 1 <= Len(toks) /\ toks[i + 1] = "}"
              THEN ParseOk(PyDict(<<>>), i + 2)
              ELSE ParseMembers(toks, i + 1, <<>>)
    ELSE ParseFail

\* the rest of an array: a value at i, then "," and more, or "]"
ParseItems(toks, i, acc) ==
    LET r == ParseValue(toks, i) IN
    IF ~r.ok \/ r.next > Len(toks) THEN ParseFail
    ELSE IF toks[r.next] = "]" THEN ParseOk(PyList(Append(acc, r.val)), r.next + 1)
    ELSE IF toks[r.next] = "," THEN ParseItems(toks, r.next + 1, Append(acc, r.val))
    ELSE ParseFail

\* the rest of an object: "key" : value at i, then "," and more, or "}"
ParseMembers(toks, i, acc) ==
    IF i + 1 > Len(toks) \/ ~IsStrTok(toks[i]) \/ toks[i + 1] # ":" THEN ParseFail
    ELSE LET key == CHOOSE s \in Strings : Quote(s) = toks[i]
             r == ParseValue(toks, i + 2) IN
         IF ~r.ok \/ r.next > Len(toks) THEN ParseFail
         ELSE IF toks[r.next] = "}"
              THEN ParseOk(PyDict(DictPut(acc, key, r.val)), r.next + 1)
         ELSE IF toks[r.next] = ","
              THEN ParseMembers(toks, r.next + 1, DictPut(acc, key, r.val))
         ELSE ParseFail

\* json.load(f): ok is FALSE where json.load raises JSONDecodeError
json_load(toks) ==
    LET r == ParseValue(toks, 1) IN
    IF r.ok /\ r.next = Len(toks) + 1 THEN r ELSE ParseFail

(* ------------------------------ Grid ----------------------------------- *)
\* the Grid instances of the program
Inst == {1, 2}

\* a path that can be written, and the tests' path in a missing directory
GoodPath == "state.json"
BadPath == "/invalid/path/file.json"
Paths == {GoodPath, BadPath}
\* can open(p, 'w') succeed
Writable(p) == p = GoodPath

NoFile == [exists |-> FALSE, text |-> <<>>]
File(text) == [exists |-> TRUE, text |-> text]

\* the fields of a Grid the model follows: height, grid and the number of
\* button_press_event callbacks connected to the canvas of self.fig
Obj(h, g, n) == [height |-> h, grid |-> g, handlers |-> n]

\* what a method did: ret is the value returned ("True", "False", "None")
\* or the exception that left the method; bind says whether self.grid is
\* still the same list object ("same"), a new one ("new") or the object
\* given as the argument ("arg")
Done(ret, self, bind) ==
    [ret |-> ret, height |-> self.height, grid |-> self.grid,
     handlers |-> self.handlers, bind |-> bind]

\* plt.subplots(figsize=(1, self.height * 20)): "ok" or the exception.
\* None * 20 is a TypeError; a negative size is matplotlib's ValueError;
\* a str or list height makes a figsize no figure accepts.
create_figure(h) ==
    IF h.t = "int" THEN (IF h.v < 0 THEN "ValueError" ELSE "ok")
    ELSE "TypeError"

\* a Grid that is built one box short
Grid_one_short(h) ==
    Obj(PyInt(h), PyList([k \in 1..(h - 1) |-> PyInt(OFF)]), 0)

\* Grid(height)
Grid(h) == Obj(PyInt(h), PyList([k \in 1..h |-> PyInt(OFF)]), 0)

\* can the value be iterated (for .. in, enumerate, the in operator)
Iterable(x) == x.t \in {"list", "tuple", "str", "dict"}

\* is one of the two strings inside the other (key in "some text")
Substring(key, s) ==
    \/ key = s
    \/ s = "height grid" /\ key \in {"height", "grid"}

\* key in x, for an iterable x
Contains(x, key) ==
    CASE x.t = "dict" -> DictHas(x, key)
      [] x.t \in {"list", "tuple"} -> \E k \in 1..Len(x.v) : PyEq(x.v[k], PyStr(key))
      [] x.t = "str" -> Substring(key, x.v)

\* state in [BoxState.ON, BoxState.OFF]
IsBoxState(x) == x.t = "int" /\ x.v \in {ON, OFF}

\* a toggle that compares the index with self.height; the subscript of a
\* list raises IndexError at or beyond its end
toggle_box_height_bound(self, index) ==
    IF self.height.t # "int" THEN Done("TypeError", self, "same")
    ELSE IF ~(0 <= index /\ index < self.height.v) THEN Done("IndexError", self, "same")
    ELSE IF self.grid.t = "dict" THEN Done("KeyError", self, "same")
    ELSE IF self.grid.t # "list" THEN Done("TypeError", self, "same")
    ELSE IF index >= Len(self.grid.v) THEN Done("IndexError", self, "same")
    ELSE LET old == self.grid.v[index + 1]
             new == IF PyEq(old, PyInt(OFF)) THEN PyInt(ON) ELSE PyInt(OFF)
         IN Done("None", [self EXCEPT !.grid = PyList([self.grid.v EXCEPT ![index + 1] = new])], "same")

\* a toggle that subtracts the box from 1 (1 - state)
toggle_box_subtract(self, index) ==
    IF ~HasLen(self.grid) THEN Done("TypeError", self, "same")
    ELSE IF ~(0 <= index /\ index < PyLen(self.grid)) THEN Done("IndexError", self, "same")
    ELSE IF self.grid.t = "dict" THEN Done("KeyError", self, "same")
    ELSE IF self.grid.t # "list" THEN Done("TypeError", self, "same")
    ELSE LET old == self.grid.v[index + 1]
             new == IF old.t = "int" THEN PyInt(1 - old.v) ELSE PyInt(OFF)
         IN Done("None", [self EXCEPT !.grid = PyList([self.grid.v EXCEPT ![index + 1] = new])], "same")

\* a toggle that flips every box up to and including the one at index
toggle_box_upto(self, index) ==
    IF ~HasLen(self.grid) THEN Done("TypeError", self, "same")
    ELSE IF ~(0 <= index /\ index < PyLen(self.grid)) THEN Done("IndexError", self, "same")
    ELSE IF self.grid.t = "dict" THEN Done("KeyError", self, "same")
    ELSE IF self.grid.t # "list" THEN Done("TypeError", self, "same")
    ELSE LET flip(x) == IF PyEq(x, PyInt(OFF)) THEN PyInt(ON) ELSE PyInt(OFF)
         IN Done("None",
                 [self EXCEPT !.grid = PyList([k \in 1..Len(self.grid.v) |->
                     IF k <= index + 1 THEN flip(self.grid.v[k]) ELSE self.grid.v[k]])],
                 "same")

\* self.toggle_box(index)
toggle_box(self, index) ==
    IF ~HasLen(self.grid) THEN Done("TypeError", self, "same")
    ELSE IF ~(0 <= index /\ index < PyLen(self.grid)) THEN Done("IndexError", self, "same")
    ELSE IF self.grid.t = "dict" THEN Done("KeyError", self, "same")
    ELSE IF self.grid.t # "list" THEN Done("TypeError", self, "same")
    ELSE LET old == self.grid.v[index + 1]
             new == IF PyEq(old, PyInt(OFF)) THEN PyInt(ON) ELSE PyInt(OFF)
         IN Done("None",
                 [self EXCEPT !.grid = PyList([self.grid.v EXCEPT ![index + 1] = new])],
                 "same")

\* self.print_grid(): draws every box and connects one more click callback
\* to the canvas of self.fig; enumerate(self.grid) and self.height * 20
\* raise before the callback is connected
print_grid(self) ==
    IF ~Iterable(self.grid) THEN Done("TypeError", self, "same")
    ELSE IF self.height.t # "int" THEN Done("TypeError", self, "same")
    ELSE Done("None", [self EXCEPT !.handlers = @ + 1], "same")

\* a button_press_event: inaxes is whether the pointer is over the axes,
\* xdata / ydata are PyInt coordinates or PyNone
Event(inaxes, x, y) == [inaxes |-> inaxes, xdata |-> x, ydata |-> y]

\* self.toggle_box_at_position(event), one run of the callback
toggle_box_at_position(self, event) ==
    IF ~event.inaxes THEN Done("None", self, "same")
    ELSE IF event.xdata.t = "none" \/ event.ydata.t = "none" THEN Done("None", self, "same")
    ELSE LET index == event.xdata.v \div BoxWidth IN
         IF ~HasLen(self.grid) THEN Done("None", self, "same")
         ELSE IF ~(0 <= index /\ index < PyLen(self.grid)) THEN Done("None", self, "same")
         ELSE LET t == toggle_box(self, index) IN
              IF t.ret = "KeyError" THEN Done("KeyError", self, "same")
              ELSE IF t.ret # "None" THEN Done("None", self, "same")
              ELSE LET p == print_grid(Obj(t.height, t.grid, t.handlers)) IN
                   Done("None", Obj(p.height, p.grid, p.handlers), "same")

RECURSIVE process(_, _, _)
\* the canvas delivers the event to the n callbacks connected when the
\* event arrived, one after the other; callbacks connected meanwhile are
\* not called for this event
process(self, event, n) ==
    IF n = 0 THEN Done("None", self, "same")
    ELSE LET r == toggle_box_at_position(self, event) IN
         process(Obj(r.height, r.grid, r.handlers), event, n - 1)

\* self.save_state(filename): ret and the file the call leaves behind
save_state(self, file, filename) ==
    LET state_data == PyDict(<< <<"height", self.height>>, <<"grid", self.grid>> >>) IN
    IF ~Writable(filename) THEN [ret |-> "False", file |-> file]
    ELSE [ret |-> "True", file |-> File(json_dump(state_data))]

\* load_state that takes each field as soon as it finds it
load_state_partial(self, file) ==
    IF ~file.exists THEN Done("False", self, "same")
    ELSE LET r == json_load(file.text) IN
         IF ~r.ok THEN Done("False", self, "same")
         ELSE IF r.val.t # "dict" THEN Done("TypeError", self, "same")
         ELSE IF ~DictHas(r.val, "height") THEN Done("False", self, "same")
         ELSE IF ~DictHas(r.val, "grid")
              THEN Done("False", [self EXCEPT !.height = DictGet(r.val, "height")], "same")
         ELSE Done("True", Obj(DictGet(r.val, "height"), DictGet(r.val, "grid"), 0), "new")

\* load_state that forgets to take the grid from the file
load_state_keeps_grid(self, file) ==
    IF ~file.exists THEN Done("False", self, "same")
    ELSE LET r == json_load(file.text) IN
         IF ~r.ok THEN Done("False", self, "same")
         ELSE IF r.val.t # "dict" THEN Done("TypeError", self, "same")
         ELSE IF ~(DictHas(r.val, "height") /\ DictHas(r.val, "grid"))
              THEN Done("False", self, "same")
         ELSE Done("True", Obj(DictGet(r.val, "height"), self.grid, 0), "same")

\* self.load_state(filename), file being what the path holds. The figure
\* made after the two assignments is a new one, with no callback connected;
\* when create_figure raises, self.fig stays the old figure
load_state(self, file) ==
    IF ~file.exists THEN Done("False", self, "same")
    ELSE LET r == json_load(file.text) IN
         IF ~r.ok THEN Done("False", self, "same")
         ELSE IF ~Iterable(r.val) THEN Done("TypeError", self, "same")
         ELSE IF ~(Contains(r.val, "height") /\ Contains(r.val, "grid"))
              THEN Done("False", self, "same")
         ELSE IF r.val.t # "dict" THEN Done("TypeError", self, "same")
         ELSE LET h == DictGet(r.val, "height")
                  g == DictGet(r.val, "grid")
                  f == create_figure(h) IN
              IF f # "ok" THEN Done(f, Obj(h, g, self.handlers), "new")
              ELSE Done("True", Obj(h, g, 0), "new")

\* get_state that returns self.grid itself
get_state_no_copy(self) ==
    IF self.grid.t \in {"list", "dict"}
    THEN [ret |-> "list", val |-> self.grid, fresh |-> FALSE]
    ELSE [ret |-> "AttributeError", val |-> PyNone, fresh |-> TRUE]

\* self.get_state(): the value returned and whether it is a new object
get_state(self) ==
    IF self.grid.t \in {"list", "dict"}
    THEN [ret |-> "list", val |-> self.grid, fresh |-> TRUE]
    ELSE [ret |-> "AttributeError", val |-> PyNone, fresh |-> TRUE]

\* the values a for loop over x yields
Elements(x) ==
    CASE x.t \in {"list", "tuple"} -> {x.v[k] : k \in 1..Len(x.v)}
      [] x.t = "dict" -> {PyStr(x.v[k][1]) : k \in 1..Len(x.v)}
      [] x.t = "str" -> IF x.v = "" THEN {} ELSE {PyStr(x.v)}

\* set_state that does not look at the values
set_state_any_value(self, new_state) ==
    IF ~HasLen(new_state) THEN Done("False", self, "same")
    ELSE IF ~PyEq(PyInt(PyLen(new_state)), self.height) THEN Done("False", self, "same")
    ELSE IF new_state.t \notin {"list", "dict"} THEN Done("False", self, "same")
    ELSE Done("True", [self EXCEPT !.grid = new_state], "new")

\* set_state that keeps new_state itself instead of a copy
set_state_no_copy(self, new_state) ==
    IF ~HasLen(new_state) THEN Done("False", self, "same")
    ELSE IF ~PyEq(PyInt(PyLen(new_state)), self.height) THEN Done("False", self, "same")
    ELSE IF \E e \in Elements(new_state) : ~IsBoxState(e) THEN Done("False", self, "same")
    ELSE Done("True", [self EXCEPT !.grid = new_state], "arg")

\* self.set_state(new_state)
set_state(self, new_state) ==
    IF ~HasLen(new_state) THEN Done("False", self, "same")
    ELSE IF ~PyEq(PyInt(PyLen(new_state)), self.height) THEN Done("False", self, "same")
    ELSE IF \E e \in Elements(new_state) : ~IsBoxState(e) THEN Done("False", self, "same")
    ELSE IF new_state.t \notin {"list", "dict"} THEN Done("False", self, "same")
    ELSE Done("True", [self EXCEPT !.grid = new_state], "new")

(* ------------------------------ state ---------------------------------- *)
VARIABLES
    height,     \* height[i]: self.height of Grid i
    grid,       \* grid[i]: the value of self.grid of Grid i
    handlers,   \* handlers[i]: click callbacks connected to Grid i's canvas
    files,      \* files[p]: what the path p holds
    held,       \* the list the caller holds (an argument or a result)
    shares,     \* the Grids whose self.grid is the very object held
    origin,     \* where held comes from: "get_state", "set_state" (an
                \*   argument set_state accepted), "rejected" (one it
                \*   refused) or "none"
    op,         \* the last call, the Grid it was made on, its integer
    who,        \*   argument (an index, an x coordinate, the length of
    arg,        \*   new_state), its filename and how it ended (the value
    path,       \*   returned or the exception raised)
    ret,
    saved       \* the Grid state the last save_state wrote, while the
                \*   file still holds it

vars == <<height, grid, handlers, files, held, shares, origin, op, who, arg, path, ret, saved>>

Self(i) == Obj(height[i], grid[i], handlers[i])

NoSave == [by |-> 0, height |-> PyNone, grid |-> PyNone]

\* what the caller passes to set_state: the lists of up to MaxHeight box
\* states, such lists ending in a value that is no box state, a tuple and
\* None
BoxStates == {PyInt(OFF), PyInt(ON)}
BoxLists(n) == UNION {[1..m -> BoxStates] : m \in 0..n}
ArgValues ==
    {PyList(q) : q \in BoxLists(MaxHeight)}
        \cup {PyList(Append(q, PyInt(Other))) : q \in BoxLists(MaxHeight - 1)}
        \cup {PyNone, PyTuple(<<PyInt(ON)>>)}

\* indices given to toggle_box and x coordinates of clicks
Indices == (-1)..MaxHeight
XData == {-5, 5} \cup {BoxWidth * k + 5 : k \in 1..MaxHeight}

\* file contents that do not come from save_state: records with both
\* fields that no Grid built by toggles would have written ...
OddRecords ==
    { PyDict(<< <<"height", PyInt(2)>>, <<"grid", PyList(<<PyInt(OFF)>>)>> >>),
      PyDict(<< <<"height", PyInt(0)>>, <<"grid", PyList(<<PyInt(OFF)>>)>> >>),
      PyDict(<< <<"height", PyInt(1)>>, <<"grid", PyList(<<PyInt(Other)>>)>> >>),
      PyDict(<< <<"height", PyInt(2)>>, <<"grid", PyList(<<PyInt(Other), PyInt(Other)>>)>> >>),
      PyDict(<< <<"height", PyNone>>, <<"grid", PyList(<<PyInt(ON)>>)>> >>),
      PyDict(<< <<"height", PyInt(1)>>, <<"grid", PyInt(OFF)>> >>) }
OddTexts == {json_dump(x) : x \in OddRecords}
\* ... and JSON that is no such record, or no JSON
ForeignValues ==
    { PyInt(Other), PyNone, PyStr("height grid"),
      PyList(<<PyStr("height"), PyStr("grid")>>),
      PyDict(<< <<"height", PyInt(1)>> >>) }
ForeignTexts == OddTexts \cup {json_dump(x) : x \in ForeignValues} \cup {<<>>, <<"{">>}

Init ==
    /\ \E n \in 0..MaxHeight :
          /\ height = [i \in Inst |-> Grid(n).height]
          /\ grid = [i \in Inst |-> Grid(n).grid]
    /\ handlers = [i \in Inst |-> 0]
    /\ files = [p \in Paths |-> NoFile]
    /\ held = PyNone
    /\ shares = {}
    /\ origin = "none"
    /\ op = "init" /\ who = 0 /\ arg = 0 /\ path = "" /\ ret = "None"
    /\ saved = NoSave

\* the fields of Grid i after a method call r; a list changed in place
\* changes for everyone who holds that list
Commit(i, r) ==
    /\ height' = [height EXCEPT ![i] = r.height]
    /\ handlers' = [handlers EXCEPT ![i] = r.handlers]
    /\ IF r.bind = "same"
       THEN /\ grid' = [j \in Inst |-> IF j = i \/ (i \in shares /\ j \in shares)
                                       THEN r.grid ELSE grid[j]]
            /\ held' = IF i \in shares THEN r.grid ELSE held
            /\ shares' = shares
       ELSE /\ grid' = [grid EXCEPT ![i] = r.grid]
            /\ held' = held
            /\ shares' = shares \ {i}

Called(name, i, a, r) == op' = name /\ who' = i /\ arg' = a /\ path' = "" /\ ret' = r
CalledOn(name, i, filename, r) ==
    op' = name /\ who' = i /\ arg' = 0 /\ path' = filename /\ ret' = r

ToggleBox(i, index) ==
    LET r == toggle_box(Self(i), index) IN
    /\ Commit(i, r)
    /\ Called("toggle_box", i, index, r.ret)
    /\ UNCHANGED <<files, origin, saved>>

PrintGrid(i) ==
    LET r == print_grid(Self(i)) IN
    /\ r.handlers <= MaxHandlers
    /\ Commit(i, r)
    /\ Called("print_grid", i, 0, r.ret)
    /\ UNCHANGED <<files, origin, saved>>

\* a mouse click on the canvas of Grid i
Click(i, event) ==
    LET r == process(Self(i), event, handlers[i]) IN
    /\ r.handlers <= MaxHandlers
    /\ Commit(i, r)
    /\ Called("click", i, IF event.xdata.t = "int" THEN event.xdata.v ELSE 0, r.ret)
    /\ UNCHANGED <<files, origin, saved>>

\* a save that empties the list of boxes it has written
SaveState_clears(i, filename) ==
    LET r == save_state(Self(i), files[filename], filename) IN
    /\ files' = [files EXCEPT ![filename] = r.file]
    /\ saved' = saved
    /\ grid' = [grid EXCEPT ![i] = PyList(<< >>)]
    /\ CalledOn("save_state", i, filename, r.ret)
    /\ UNCHANGED <<height, handlers, held, shares, origin>>

SaveState(i, filename) ==
    LET r == save_state(Self(i), files[filename], filename) IN
    /\ files' = [files EXCEPT ![filename] = r.file]
    /\ saved' = IF r.ret = "True"
                THEN [by |-> i, height |-> height[i], grid |-> grid[i]]
                ELSE saved
    /\ CalledOn("save_state", i, filename, r.ret)
    /\ UNCHANGED <<height, grid, handlers, held, shares, origin>>

LoadState(i, filename) ==
    LET r == load_state(Self(i), files[filename]) IN
    /\ Commit(i, r)
    /\ CalledOn("load_state", i, filename, r.ret)
    /\ UNCHANGED <<files, origin, saved>>

GetState(i) ==
    LET r == get_state(Self(i)) IN
    /\ IF r.ret = "list"
       THEN /\ held' = r.val
            /\ shares' = IF r.fresh THEN {} ELSE {i}
            /\ origin' = "get_state"
       ELSE UNCHANGED <<held, shares, origin>>
    /\ Called("get_state", i, 0, r.ret)
    /\ UNCHANGED <<height, grid, handlers, files, saved>>

\* set_state(new_state) with a list the caller has just built; keep says
\* whether the caller still holds the list after the call
SetState(i, new_state, keep) ==
    LET r == set_state(Self(i), new_state) IN
    /\ height' = [height EXCEPT ![i] = r.height]
    /\ handlers' = [handlers EXCEPT ![i] = r.handlers]
    /\ grid' = [grid EXCEPT ![i] = r.grid]
    /\ IF keep
       THEN /\ held' = new_state
            /\ shares' = IF r.bind = "arg" THEN {i} ELSE {}
            /\ origin' = IF r.ret = "True" THEN "set_state" ELSE "rejected"
       ELSE /\ shares' = IF r.bind = "same" THEN shares ELSE shares \ {i}
            /\ UNCHANGED <<held, origin>>
    /\ Called("set_state", i, IF HasLen(new_state) THEN PyLen(new_state) ELSE -1, r.ret)
    /\ UNCHANGED <<files, saved>>

\* the caller assigns to an element of the list it holds
Mutate(k, x) ==
    /\ held.t = "list"
    /\ k \in 1..Len(held.v)
    /\ ~PyEq(held.v[k], x)
    /\ held' = PyList([held.v EXCEPT ![k] = x])
    /\ grid' = [j \in Inst |-> IF j \in shares THEN held' ELSE grid[j]]
    /\ Called("mutate", 0, k - 1, "None")
    /\ UNCHANGED <<height, handlers, files, shares, origin, saved>>

\* another program writes the file
WriteFile(text) ==
    /\ files' = [files EXCEPT ![GoodPath] = File(text)]
    /\ saved' = NoSave
    /\ Called("write", 0, 0, "None")
    /\ UNCHANGED <<height, grid, handlers, held, shares, origin>>

\* os.unlink(filename)
Unlink ==
    /\ files[GoodPath].exists
    /\ files' = [files EXCEPT ![GoodPath] = NoFile]
    /\ saved' = NoSave
    /\ Called("unlink", 0, 0, "None")
    /\ UNCHANGED <<height, grid, handlers, held, shares, origin>>

\* main() draws the Grid once before the event loop starts
FirstDraw(i) ==
    /\ handlers[i] = 0
    /\ PrintGrid(i)

\* a variable of the program is bound to a new Grid(n)
Construct(i, n) ==
    LET g == Grid(n) IN
    /\ height' = [height EXCEPT ![i] = g.height]
    /\ grid' = [grid EXCEPT ![i] = g.grid]
    /\ handlers' = [handlers EXCEPT ![i] = g.handlers]
    /\ shares' = shares \ {i}
    /\ Called("__init__", i, n, "None")
    /\ UNCHANGED <<files, held, origin, saved>>

\* a variable of the program is bound to a new Grid()
ConstructDefault(i) ==
    LET g == Grid(DefaultHeight) IN
    /\ height' = [height EXCEPT ![i] = g.height]
    /\ grid' = [grid EXCEPT ![i] = g.grid]
    /\ handlers' = [handlers EXCEPT ![i] = g.handlers]
    /\ shares' = shares \ {i}
    /\ Called("__init__()", i, 0, "None")
    /\ UNCHANGED <<files, held, origin, saved>>

Events ==
    {Event(TRUE, PyInt(x), PyInt(270)) : x \in XData}
        \cup {Event(FALSE, PyNone, PyNone), Event(TRUE, PyNone, PyInt(270))}

\* one Grid, every operation on it, and the file system around it
Next ==
    \/ \E index \in Indices : ToggleBox(1, index)
    \/ PrintGrid(1)
    \/ \E event \in Events : Click(1, event)
    \/ \E filename \in Paths : SaveState(1, filename)
    \/ \E filename \in Paths : LoadState(1, filename)
    \/ \E new_state \in ArgValues : SetState(1, new_state, FALSE)
    \/ \E text \in ForeignTexts : WriteFile(text)
    \/ Unlink

Spec == Init /\ [][Next]_vars

\* two Grids that toggle, save and load through the same files
NextRoundTrip ==
    \/ \E i \in Inst, index \in Indices : ToggleBox(i, index)
    \/ \E i \in Inst, filename \in Paths : SaveState(i, filename)
    \/ \E i \in Inst, filename \in Paths : LoadState(i, filename)
    \/ \E text \in ForeignTexts : WriteFile(text)
    \/ Unlink

SpecRoundTrip == Init /\ [][NextRoundTrip]_vars

\* a caller that keeps the lists it passes to and gets from a Grid, which
\* is also toggled and loaded from files of any content
NextAlias ==
    \/ \E index \in Indices : ToggleBox(1, index)
    \/ GetState(1)
    \/ \E new_state \in ArgValues : SetState(1, new_state, TRUE)
    \/ \E k \in 1..MaxHeight, x \in BoxStates : Mutate(k, x)
    \/ LoadState(1, GoodPath)
    \/ \E text \in OddTexts : WriteFile(text)

SpecAlias == Init /\ [][NextAlias]_vars

\* two variables that are bound to new Grids, with and without a height,
\* and toggled in between
NextConstruct ==
    \/ \E i \in Inst, n \in 0..MaxHeight : Construct(i, n)
    \/ \E i \in Inst : ConstructDefault(i)
    \/ \E i \in Inst, index \in Indices : ToggleBox(i, index)

SpecConstruct == Init /\ [][NextConstruct]_vars

\* the application: each Grid is drawn once by main(), then the event loop
\* delivers clicks one at a time
NextClicks ==
    \/ \E i \in Inst : FirstDraw(i)
    \/ \E i \in Inst, event \in Events : Click(i, event)

SpecClicks == Init /\ [][NextClicks]_vars

(* ------------------------------ claims --------------------------------- *)
\* did the last call report success
Succeeded == ret \in {"True", "None", "list"}

\* a Grid state as toggles leave it: height boxes, each ON or OFF
WellFormed(h, g) ==
    /\ h.t = "int"
    /\ g.t = "list"
    /\ Len(g.v) = h.v
    /\ \A k \in 1..Len(g.v) : IsBoxState(g.v[k])

\* C1: after every operation that reports success the list of cells has
\* exactly height elements (len(grid) == height).
C1_LenIsHeight ==
    Succeeded => \A i \in Inst :
        grid[i].t = "list" => PyEq(PyInt(PyLen(grid[i])), height[i])

\* C2: every element of the list of cells is ON or OFF in every reachable
\* state.
C2_CellsAreBoxStates ==
    \A i \in Inst :
        grid[i].t = "list" => \A k \in 1..Len(grid[i].v) : IsBoxState(grid[i].v[k])

\* C3: a load that returns False leaves height and grid as they were.
C3_FailedLoadChangesNothing ==
    [][(op' = "load_state" /\ ret' = "False") => (height' = height /\ grid' = grid)]_vars

\* C3 witness: load_state has returned False on a file that parses but has
\* no "grid" field.
C3_Witness ==
    /\ op = "load_state" /\ ret = "False" /\ path = GoodPath
    /\ files[GoodPath] = File(json_dump(PyDict(<< <<"height", PyInt(1)>> >>)))

\* C4: set_state, save_state and load_state never raise: they return True
\* or False, and unless they return True height and grid are unchanged.
C4_NeverRaise ==
    [][op' \in {"set_state", "save_state", "load_state"}
          => /\ ret' \in {"True", "False"}
             /\ ret' # "True" => (height' = height /\ grid' = grid)]_vars

\* C5: when a Grid in a state toggles can reach has saved to a file, a
\* load_state of that file by the other Grid returns True and leaves it
\* with get_state() and height equal to the saved grid and height.
C5_RoundTrip ==
    [][(/\ op' = "load_state" /\ path' = GoodPath
        /\ saved.by # 0 /\ saved.by # who'
        /\ WellFormed(saved.height, saved.grid))
          => /\ ret' = "True"
             /\ get_state(Obj(height'[who'], grid'[who'], handlers'[who'])).val = saved.grid
             /\ height'[who'] = saved.height]_vars

\* C5 witness: a Grid has loaded what the other one saved with a box ON,
\* and before the load its own boxes were different (the first was OFF).
C5_Witness ==
    /\ op = "load_state" /\ ret = "True" /\ path = GoodPath
    /\ saved.by # 0 /\ saved.by # who
    /\ WellFormed(saved.height, saved.grid)
    /\ \E k \in 1..Len(saved.grid.v) : PyEq(saved.grid.v[k], PyInt(ON))
    /\ grid[who] = saved.grid
    /\ grid[saved.by] # saved.grid

\* is new_state a sequence set_state has to refuse: its length is not the
\* height h, or one of its elements is neither ON nor OFF
Refusable(new_state, h) ==
    /\ new_state.t \in {"list", "tuple"}
    /\ \/ ~PyEq(PyInt(PyLen(new_state)), h)
       \/ \E e \in Elements(new_state) : ~IsBoxState(e)

\* C6: set_state(s) returns False and leaves height and grid unchanged
\* whenever len(s) is not the height or an element of s is not ON or OFF.
C6_BadStateRefused ==
    [][(op' = "set_state" /\ Refusable(held', height[who']))
          => (ret' = "False" /\ height' = height /\ grid' = grid)]_vars

\* C6 witness: set_state has returned False for a list of the right
\* length with an element that is neither ON nor OFF, on a Grid whose
\* boxes are not all OFF.
C6_Witness ==
    /\ op = "set_state" /\ ret = "False"
    /\ held = PyList(<<PyInt(ON), PyInt(Other)>>)
    /\ height[who] = PyInt(2)
    /\ grid[who] = PyList(<<PyInt(ON), PyInt(OFF)>>)

ToggledTwice(self, index) ==
    LET a == toggle_box(self, index)
        b == toggle_box(Obj(a.height, a.grid, a.handlers), index)
    IN IF a.ret = "None" /\ b.ret = "None" THEN b.grid.v[index + 1] ELSE PyNone

\* C8: in every reachable state, for every index in [0, height), two calls
\* of toggle_box(index) leave the cell at index with the value it had.
C8_ToggleTwice ==
    \A i \in Inst, index \in Indices :
        (height[i].t = "int" /\ 0 <= index /\ index < height[i].v /\ grid[i].t = "list"
            /\ index < Len(grid[i].v))
            => PyEq(ToggledTwice(Self(i), index), grid[i].v[index + 1])

\* C9: in every reachable state toggle_box(index) with index < 0 or
\* index >= height raises IndexError and leaves the cells unchanged.
C9_BadIndexRaises ==
    [][(/\ op' = "toggle_box" /\ height[who'].t = "int" /\ grid[who'].t = "list"
        /\ (arg' < 0 \/ arg' >= height[who'].v))
          => (ret' = "IndexError" /\ grid' = grid)]_vars

\* C10: get_state() returns a list of its own: assigning to an element of
\* the returned list changes no Grid, so every later get_state() returns
\* what it would have returned anyway.
C10_GetStateCopies ==
    [][(op' = "mutate" /\ origin = "get_state")
          => /\ grid' = grid
             /\ \A i \in Inst : get_state(Obj(height'[i], grid'[i], handlers'[i])) = get_state(Self(i))]_vars

\* C10 witness: the caller has changed an element of a list get_state
\* returned, and that list now differs from the grid it was copied from.
C10_Witness ==
    /\ op = "mutate" /\ origin = "get_state"
    /\ \E i \in Inst : grid[i].t = "list" /\ Len(grid[i].v) = Len(held.v)
                        /\ ~PyEq(grid[i].v[arg + 1], held.v[arg + 1])

\* the index a click at event addresses, when it addresses one
Addressed(event) == event.xdata.v \div BoxWidth

\* a click the program is to ignore: outside the axes, without coordinates,
\* or at an index that is negative or not below the length h
Ignored(event, h) ==
    \/ ~event.inaxes
    \/ event.xdata.t = "none"
    \/ event.ydata.t = "none"
    \/ Addressed(event) < 0
    \/ (h.t = "int" /\ Addressed(event) >= h.v)

\* C11: a click whose index floor(x/20) is negative or not below the length
\* (the stored height), or that is outside the axes or has no x or y, toggles
\* nothing and raises nothing: height and grid stay as they were.
C11_IgnoredClickChangesNothing ==
    [][\A event \in Events :
          (Click(1, event) /\ Ignored(event, height[1]))
              => (ret' = "None" /\ height' = height /\ grid' = grid)]_vars

\* Grid i holds length n and exactly n boxes, every one OFF
FreshGrid(i, n) ==
    /\ height[i] = PyInt(n)
    /\ grid[i].t = "list"
    /\ Len(grid[i].v) = n
    /\ \A k \in 1..n : grid[i].v[k] = PyInt(OFF)

\* C12: Grid(n) has height n and exactly n boxes, all OFF; Grid() with no
\* argument is Grid(14).
C12_ConstructAllOff ==
    /\ op = "init" => \A i \in Inst : \E n \in 0..MaxHeight : FreshGrid(i, n)
    /\ op = "__init__" => FreshGrid(who, arg)
    /\ op = "__init__()" => FreshGrid(who, 14)

\* C12 witness: Grid() has just been built and holds 14 boxes, next to a
\* Grid of the largest height that has its first box ON.
C12_Witness ==
    /\ op = "__init__()" /\ who = 1
    /\ Len(grid[1].v) = 14
    /\ height[2] = PyInt(MaxHeight)
    /\ grid[2].v[1] = PyInt(ON)

\* C13: save_state changes neither height nor grid, whether it returns True
\* or False.
C13_SaveChangesNothing ==
    [][op' = "save_state" => (height' = height /\ grid' = grid)]_vars

\* C13 witness: save_state has returned False for a path it cannot write,
\* on a Grid that has a box ON.
C13_Witness ==
    /\ op = "save_state" /\ ret = "False" /\ path = BadPath
    /\ height[1] = PyInt(MaxHeight)
    /\ grid[1].t = "list" /\ Len(grid[1].v) = MaxHeight
    /\ grid[1].v[1] = PyInt(ON)

\* a click the program is to accept on a drawn Grid: inside the axes, with
\* coordinates, at an index below the number of boxes
Accepted(event, i) ==
    /\ handlers[i] >= 1
    /\ event.inaxes
    /\ event.xdata.t = "int" /\ event.ydata.t = "int"
    /\ 0 <= Addressed(event) /\ Addressed(event) < PyLen(grid[i])

\* C14: on a Grid that was drawn once and then only clicked, every accepted
\* click toggles its box exactly once, however many clicks (and the redraws
\* that follow them) came before.
C14_ClickTogglesOnce ==
    [][\A i \in Inst, event \in Events :
          (Click(i, event) /\ Accepted(event, i))
              => grid'[i] = toggle_box(Self(i), Addressed(event)).grid]_vars

\* C15: a toggle_box(index) that returns changes no box but the one at
\* index: every other box, the number of boxes and height stay as they were.
C15_ToggleChangesOneBox ==
    [][(op' = "toggle_box" /\ ret' = "None") =>
          /\ height' = height
          /\ grid'[who'].t = "list"
          /\ Len(grid'[who'].v) = Len(grid[who'].v)
          /\ \A k \in 1..Len(grid[who'].v) :
                k # arg' + 1 => grid'[who'].v[k] = grid[who'].v[k]
          /\ \A j \in Inst \ {who'} : grid'[j] = grid[j]]_vars

\* C15 witness: toggle_box of the last box has returned, that box is ON and
\* the first box is ON too.
C15_Witness ==
    /\ op = "toggle_box" /\ ret = "None" /\ arg = MaxHeight - 1
    /\ grid[1].t = "list" /\ Len(grid[1].v) = MaxHeight
    /\ grid[1].v[1] = PyInt(ON)
    /\ grid[1].v[MaxHeight] = PyInt(ON)

\* C16: the length (the stored height) changes only in a load_state that
\* returns True: toggle_box, set_state, save_state, clicks and loads that do
\* not succeed leave it as it was.
C16_OnlyLoadChangesLength ==
    [][height' # height => (op' = "load_state" /\ ret' = "True")]_vars

\* C17: a toggle_box that returns leaves the box it toggled ON or OFF,
\* whatever the box held: OFF becomes ON, and every other value, a value
\* that is neither ON nor OFF included, becomes OFF.
C17_ToggleNormalises ==
    [][(op' = "toggle_box" /\ ret' = "None") =>
          LET old == grid[who'].v[arg' + 1]
              new == grid'[who'].v[arg' + 1]
          IN /\ IsBoxState(new)
             /\ PyEq(old, PyInt(OFF)) => new = PyInt(ON)
             /\ ~PyEq(old, PyInt(OFF)) => new = PyInt(OFF)]_vars

\* C17 witness: toggle_box(0) has returned with the first box OFF in a
\* Grid whose second box is still neither ON nor OFF: the two boxes were
\* loaded with such values, and the first has been toggled since.
C17_Witness ==
    /\ op = "toggle_box" /\ ret = "None" /\ arg = 0
    /\ grid[1] = PyList(<<PyInt(OFF), PyInt(Other)>>)

\* C18: toggle_box and the click handler compare the index with len(grid),
\* set_state compares the length of its argument with height. On a list of
\* boxes, toggle_box returns exactly when the index is one of the boxes the
\* list holds and raises IndexError otherwise, a click never raises, neither
\* changes the number of boxes, and set_state accepts only a list of height
\* elements: also where height and len(grid) differ.
C18_BoundsAreTheList ==
    [][/\ (op' = "toggle_box" /\ grid[who'].t = "list") =>
             /\ ret' = "None" <=> (0 <= arg' /\ arg' < Len(grid[who'].v))
             /\ ret' # "None" => (ret' = "IndexError" /\ grid' = grid)
             /\ grid'[who'].t = "list" /\ Len(grid'[who'].v) = Len(grid[who'].v)
       /\ (op' = "click" /\ grid[who'].t = "list") =>
             /\ ret' = "None"
             /\ grid'[who'].t = "list" /\ Len(grid'[who'].v) = Len(grid[who'].v)
       /\ (op' = "set_state" /\ ret' = "True") => PyInt(arg') = height[who']]_vars

\* C18 witness: toggle_box(0) has returned on a Grid of height 0 that holds
\* one box.
C18_Witness ==
    /\ op = "toggle_box" /\ ret = "None" /\ arg = 0
    /\ height[1] = PyInt(0)
    /\ grid[1].t = "list" /\ Len(grid[1].v) = 1

====
